---- MODULE Spec2Model ----
(***************************************************************************)
(* A model of the piano-midi static site generator:                        *)
(*   src/regenerate_library.py  (slugify, WikipediaClient,                  *)
(*                               MidiLibraryGenerator)                     *)
(*   src/extract_pianists.py    (slugify, extract_pianists)                 *)
(*                                                                         *)
(* Text is modelled as sequences of characters; a character is a one-      *)
(* character string, or the code point name ("U+00E9") of a non-ASCII      *)
(* character.                                                              *)
(***************************************************************************)
EXTENDS Integers, Sequences, FiniteSets, TLC

VARIABLES
    \* --- slugify, applied repeatedly to one input ---
    slugArg,        \* the text handed to slugify
    slugOut,        \* the results of the successive applications
    \* --- _parse_metadata ---
    stem,           \* file_path.stem
    metadata,       \* the returned dict, or NoResult before the call
    \* --- registry extraction ---
    sources,        \* the text sources: a sequence of sequences of lines
    pianists,       \* extract_pianists: the dict written to the csv file
    scanned,        \* the lines extract_pianists read, in scan order
    mapping,        \* _extract_pianists_from_pdfs: the returned dict
    converted,      \* the lines pdftotext gave, in the order of the glob
    \* --- the file system ---
    inputDir,       \* the .mid files of input_dir: path -> file or NoFile
    csvFile,        \* the rows of input_dir/pianists.csv
    pdfText,        \* the text of the pdfs of input_dir, in glob order
    cacheFile,      \* input_dir/.wikipedia_cache.json
    midiDir,        \* output_dir/midi-files: file number -> file or NoFile
    \* --- one process: MidiLibraryGenerator(...).build_data_model() ---
    pc,             \* idle, loop, saving, finish, done, failed, crashed
    phase,          \* the part of the loop body that runs next
    file_index,     \* i, the index of the file being processed
    midi_files,     \* the sorted list of paths
    pianist_mapping,
    cache,          \* wiki_client.cache
    model,
    \* --- bookkeeping for the properties ---
    call,           \* the last call of get_entity_data
    fetches,        \* the cache misses of this run
    copied,         \* the artifacts _smart_copy wrote in this run
    since,          \* what changed in input_dir since the last run began
    basis,          \* the state this run started from
    edits           \* the changes made to input_dir

slugVars == <<slugArg, slugOut>>
parseVars == <<stem, metadata>>
regVars == <<sources, pianists, scanned, mapping, converted>>
fsVars == <<inputDir, csvFile, pdfText, cacheFile, midiDir>>
procVars == <<pc, phase, file_index, midi_files, pianist_mapping, cache, model>>
bookVars == <<call, fetches, copied, since, basis, edits>>
buildVars == <<fsVars, procVars, bookVars>>
vars == <<slugVars, parseVars, regVars, buildVars>>

\* what a variable holds before and after the call that sets it
NoResult == [done |-> FALSE, value |-> <<>>]
Result(v) == [done |-> TRUE, value |-> v]

----------------------------------------------------------------------------
(* Characters *)

Upper == <<"A","B","C","D","E","F","G","H","I","J","K","L","M",
           "N","O","P","Q","R","S","T","U","V","W","X","Y","Z">>
Lower == <<"a","b","c","d","e","f","g","h","i","j","k","l","m",
           "n","o","p","q","r","s","t","u","v","w","x","y","z">>
Digit == {"0","1","2","3","4","5","6","7","8","9"}
Range(f) == {f[i] : i \in DOMAIN f}
AsciiLetter == Range(Upper) \cup Range(Lower)
AsciiPunct == {"-", "_", "'", "(", ")", ".", ",", ":"}
AsciiSpace == {" ", "\t"}
Ascii == AsciiLetter \cup Digit \cup AsciiPunct \cup AsciiSpace

\* Non-ASCII characters of the model, by code point:
\*   U+00E9 e with acute, U+00C9 E with acute, U+00DF sharp s,
\*   U+00A0 no-break space, U+FB01 ligature fi, U+2014 em dash,
\*   U+0301 combining acute accent.
NonAsciiLetter == {"U+00E9", "U+00C9", "U+00DF", "U+FB01"}
NonAscii == NonAsciiLetter \cup {"U+00A0", "U+2014", "U+0301"}

\* str.isspace() / the regex class \s on str patterns
PySpace == AsciiSpace \cup {"U+00A0"}
\* the regex class \w on str patterns
PyWord == AsciiLetter \cup Digit \cup {"_"} \cup NonAsciiLetter

\* unicodedata.normalize('NFKD', c) for one character
NFKD(c) ==
    CASE c = "U+00E9" -> <<"e", "U+0301">>
      [] c = "U+00C9" -> <<"E", "U+0301">>
      [] c = "U+00A0" -> <<" ">>
      [] c = "U+FB01" -> <<"f", "i">>
      [] OTHER -> <<c>>

\* str.lower() for one ASCII character
LowerChar(c) ==
    IF \E i \in DOMAIN Upper : Upper[i] = c
    THEN Lower[CHOOSE i \in DOMAIN Upper : Upper[i] = c]
    ELSE c

----------------------------------------------------------------------------
(* Text helpers *)

RECURSIVE Normalize(_)
\* unicodedata.normalize('NFKD', s)
Normalize(s) ==
    IF s = <<>> THEN <<>> ELSE NFKD(Head(s)) \o Normalize(Tail(s))

RECURSIVE LStrip(_)
LStrip(s) ==
    IF s /= <<>> /\ Head(s) \in PySpace THEN LStrip(Tail(s)) ELSE s

RECURSIVE RStrip(_)
RStrip(s) ==
    IF s /= <<>> /\ s[Len(s)] \in PySpace
    THEN RStrip(SubSeq(s, 1, Len(s) - 1)) ELSE s

\* str.strip()
Strip(s) == RStrip(LStrip(s))

\* str.lower()
LowerStr(s) == [i \in DOMAIN s |-> LowerChar(s[i])]

\* unicodedata.normalize('NFKD', value).encode('ascii','ignore').decode('ascii')
IsAscii(c) == c \in Ascii
AsciiFold(s) == SelectSeq(Normalize(s), IsAscii)

\* re.sub(r'[^\w\s-]', '', value)
IsSlugChar(c) == c \in PyWord \cup PySpace \cup {"-"}
DropPunct(s) == SelectSeq(s, IsSlugChar)

RECURSIVE CollapseRuns(_)
\* re.sub(r'[-\s]+', '-', value): every maximal run of hyphens and
\* whitespace becomes one hyphen
CollapseRuns(s) ==
    IF s = <<>> THEN <<>>
    ELSE IF Head(s) \in PySpace \cup {"-"}
         THEN IF Len(s) > 1 /\ s[2] \in PySpace \cup {"-"}
              THEN CollapseRuns(Tail(s))
              ELSE <<"-">> \o CollapseRuns(Tail(s))
         ELSE <<Head(s)>> \o CollapseRuns(Tail(s))

\* slugify without its first re.sub: the punctuation stays
slugifyKeepPunct(value) ==
    CollapseRuns(LowerStr(Strip(AsciiFold(value))))

\* slugify with its two re.sub calls in the other order
slugifyCollapseFirst(value) ==
    LowerStr(Strip(DropPunct(CollapseRuns(AsciiFold(value)))))

\* slugify (both source files hold the same function)
slugify(value) ==
    CollapseRuns(LowerStr(Strip(DropPunct(AsciiFold(value)))))

----------------------------------------------------------------------------
(* Regular expressions: Python's backtracking matcher for the constructs   *)
(* the two source files use.  A pattern is a sequence of tokens; a match   *)
(* is anchored at both ends (every pattern is ^...$ and used with          *)
(* pattern.match).  The first match in backtracking order is the result:   *)
(* a lazy repetition tries the shortest count first, a greedy one the      *)
(* longest.                                                                *)

AnyChar == Ascii \cup NonAscii          \* '.' (the model has no newline)
Open(g) == [k |-> "open", g |-> g, cls |-> {}, lazy |-> FALSE, min |-> 0]
Close(g) == [k |-> "close", g |-> g, cls |-> {}, lazy |-> FALSE, min |-> 0]
One(cls) == [k |-> "one", g |-> "", cls |-> cls, lazy |-> FALSE, min |-> 1]
PlusLazy(cls) == [k |-> "rep", g |-> "", cls |-> cls, lazy |-> TRUE, min |-> 1]
Plus(cls) == [k |-> "rep", g |-> "", cls |-> cls, lazy |-> FALSE, min |-> 1]
Star(cls) == [k |-> "rep", g |-> "", cls |-> cls, lazy |-> FALSE, min |-> 0]

NoMatch == [ok |-> FALSE, caps |-> <<>>]

RECURSIVE RunLen(_, _, _)
\* how many characters of s from pos on are in cls
RunLen(s, pos, cls) ==
    IF pos <= Len(s) /\ s[pos] \in cls THEN 1 + RunLen(s, pos + 1, cls) ELSE 0

RECURSIVE ReFrom(_, _, _, _, _)
RECURSIVE ReRep(_, _, _, _, _, _, _)
\* match tokens ti.. of p against s from pos on, with captures caps
ReFrom(p, ti, s, pos, caps) ==
    IF ti > Len(p)
    THEN IF pos = Len(s) + 1 THEN [ok |-> TRUE, caps |-> caps] ELSE NoMatch
    ELSE LET t == p[ti] IN
         CASE t.k = "open" ->
                ReFrom(p, ti + 1, s, pos, (t.g :> <<pos, pos>>) @@ caps)
           [] t.k = "close" ->
                ReFrom(p, ti + 1, s, pos, (t.g :> <<caps[t.g][1], pos>>) @@ caps)
           [] t.k = "one" ->
                IF pos <= Len(s) /\ s[pos] \in t.cls
                THEN ReFrom(p, ti + 1, s, pos + 1, caps)
                ELSE NoMatch
           [] t.k = "rep" ->
                LET run == RunLen(s, pos, t.cls) IN
                IF run < t.min THEN NoMatch
                ELSE ReRep(p, ti, s, pos, caps,
                           IF t.lazy THEN t.min ELSE run, run)

\* try the repetition p[ti] with n characters, then the next count
ReRep(p, ti, s, pos, caps, n, run) ==
    LET r == ReFrom(p, ti + 1, s, pos + n, caps) IN
    IF r.ok THEN r
    ELSE IF p[ti].lazy
         THEN IF n < run THEN ReRep(p, ti, s, pos, caps, n + 1, run) ELSE NoMatch
         ELSE IF n > p[ti].min THEN ReRep(p, ti, s, pos, caps, n - 1, run) ELSE NoMatch

\* pattern.match(s)
ReMatch(p, s) == ReFrom(p, 1, s, 1, <<>>)
\* match.group(g)
Group(m, s, g) == SubSeq(s, m.caps[g][1], m.caps[g][2] - 1)
\* the names of the groups of a pattern (the keys of match.groupdict())
GroupNames(p) == {p[i].g : i \in {j \in DOMAIN p : p[j].k = "open"}}

Named(g, body) == <<Open(g)>> \o body \o <<Close(g)>>
Lit(s) == [i \in DOMAIN s |-> One({s[i]})]
Sp == <<Plus(PySpace)>>                  \* \s+
Dash == Sp \o Lit(<<"-">>) \o Sp         \* \s+-\s+

\* the compiled patterns of FILENAME_REGEX_PATTERNS
ComposerPerformerWork ==
    Named("composer", <<PlusLazy(AnyChar)>>) \o Dash
        \o Named("performer", <<PlusLazy(AnyChar)>>) \o Dash
        \o Named("work", <<PlusLazy(AnyChar)>>)
ComposerWork ==
    Named("composer", <<PlusLazy(AnyChar)>>) \o Dash
        \o Named("work", <<PlusLazy(AnyChar)>>)
WorkByComposer ==
    Named("work", <<PlusLazy(AnyChar)>>) \o Sp \o Lit(<<"b", "y">>) \o Sp
        \o Named("composer", <<PlusLazy(AnyChar)>>)
WorkParenComposer ==
    Named("work", <<PlusLazy(AnyChar)>>) \o Sp \o Lit(<<"(">>)
        \o Named("composer", <<PlusLazy(AnyChar)>>) \o Lit(<<")">>)
ComposerUnderscoreWork ==
    Named("composer", <<Plus(AnyChar \ {"_"})>>) \o Lit(<<"_">>)
        \o Named("work", <<Plus(AnyChar)>>)
WorkParenComposerPerformer ==
    Named("work", <<PlusLazy(AnyChar)>>) \o Sp \o Lit(<<"(">>)
        \o Named("composer", <<PlusLazy(AnyChar)>>) \o Lit(<<")">>) \o Sp
        \o Named("performer", <<Plus(AnyChar)>>) \o Sp
        \o <<Plus(AnyChar \ PySpace)>>
WorkOnly ==
    Named("work", <<Plus(AnyChar)>>)

\* the list with its first two patterns in the other order
PatternsTwoPartFirst ==
    <<ComposerWork, ComposerPerformerWork, WorkByComposer, WorkParenComposer,
      ComposerUnderscoreWork, WorkParenComposerPerformer, WorkOnly>>

\* FILENAME_REGEX_PATTERNS, in list order
FILENAME_REGEX_PATTERNS ==
    <<ComposerPerformerWork, ComposerWork, WorkByComposer, WorkParenComposer,
      ComposerUnderscoreWork, WorkParenComposerPerformer, WorkOnly>>

UnknownComposer ==
    <<"U","n","k","n","o","w","n"," ","C","o","m","p","o","s","e","r">>
UnknownPerformer ==
    <<"U","n","k","n","o","w","n"," ","P","e","r","f","o","r","m","e","r">>

\* metadata[f] = ... unless f is already set or the pattern has no group f
SetField(md, f, m, s, p) ==
    IF f \notin DOMAIN md /\ f \in GroupNames(p)
    THEN (f :> Strip(Group(m, s, f))) @@ md
    ELSE md

RECURSIVE Cascade(_, _, _, _)
\* the loop over the patterns pats[i..], with its break
Cascade(pats, i, s, md) ==
    IF i > Len(pats) THEN md
    ELSE LET m == ReMatch(pats[i], s) IN
         IF ~m.ok THEN Cascade(pats, i + 1, s, md)
         ELSE LET md1 == SetField(md, "work", m, s, pats[i])
                  md2 == SetField(md1, "composer", m, s, pats[i])
                  md3 == SetField(md2, "performer", m, s, pats[i])
              IN IF {"work", "composer"} \subseteq DOMAIN md3
                 THEN md3
                 ELSE Cascade(pats, i + 1, s, md3)

Default(md, f, v) == IF f \notin DOMAIN md THEN (f :> v) @@ md ELSE md

\* MidiLibraryGenerator._parse_metadata, on the stem of the path
_parse_metadata(filename_stem) ==
    LET md == Cascade(FILENAME_REGEX_PATTERNS, 1, filename_stem, <<>>) IN
    Default(Default(Default(md, "work", filename_stem),
                    "composer", UnknownComposer),
            "performer", UnknownPerformer)


----------------------------------------------------------------------------
(* Registry extraction: extract_pianists and _extract_pianists_from_pdfs   *)
(* hold the same per-line code.                                            *)

\* re.compile(r'^(.+?)\s+\((\d{4}-\d{4})\)\s*$')
Year == <<One(Digit), One(Digit), One(Digit), One(Digit)>>
PIANIST_PATTERN ==
    Named("1", <<PlusLazy(AnyChar)>>) \o Sp \o Lit(<<"(">>)
        \o Named("2", Year \o Lit(<<"-">>) \o Year) \o Lit(<<")">>)
        \o <<Star(PySpace)>>

RECURSIVE Split(_)
\* str.split(): the maximal runs of non-whitespace characters
Split(s) ==
    LET t == LStrip(s)
        n == RunLen(t, 1, AnyChar \ PySpace)
    IN IF t = <<>> THEN <<>>
       ELSE <<SubSeq(t, 1, n)>> \o Split(SubSeq(t, n + 1, Len(t)))

\* sub in s
Contains(s, sub) ==
    \E i \in 1..(Len(s) - Len(sub) + 1) : SubSeq(s, i, i + Len(sub) - 1) = sub

\* str.lower() of the names: the model's one non-ASCII capital included
LowerName(s) ==
    [i \in DOMAIN s |-> IF s[i] = "U+00C9" THEN "U+00E9" ELSE LowerChar(s[i])]

DAlbertLower == <<"d","'","a","l","b","e","r","t">>
DAlbert == <<"d","'","A","l","b","e","r","t">>
DAlbertKey == <<"d","a","l","b","e","r","t">>
Von == <<"v","o","n">>

\* pattern.match(line.strip())
LineMatch(line) == ReMatch(PIANIST_PATTERN, Strip(line))
full_name(line) == Strip(Group(LineMatch(line), Strip(line), "1"))
dates(line) == Strip(Group(LineMatch(line), Strip(line), "2"))
\* f"{full_name} ({dates})"
display_name(line) == full_name(line) \o <<" ", "(">> \o dates(line) \o <<")">>

\* the heuristic for the short name
last_name(line) ==
    LET parts == Split(full_name(line))
        n == Len(parts)
    IN IF n > 1 /\ LowerName(parts[n - 1]) = DAlbertLower THEN DAlbert
       ELSE IF n > 1 /\ LowerName(parts[n - 1]) = Von
            THEN Von \o <<" ">> \o parts[n]
            ELSE parts[n]
short_slug(line) == slugify(last_name(line))
\* "d'albert" in full_name.lower()
HasMarker(line) == Contains(LowerName(full_name(line)), DAlbertLower)

\* The lines the text sources of the model are made of.
EugenLine == <<"E","u","g","e","n"," ","d","'","A","l","b","e","r","t"," ","(","1","8","6","4","-","1","9","3","2",")">>
CharlesLine == <<"C","h","a","r","l","e","s"," ","d","'","A","l","b","e","r","t"," ","(","1","8","0","9","-","1","8","8","6",")">>
FerruccioLine == <<"F","e","r","r","u","c","c","i","o"," ","B","u","s","o","n","i"," ","(","1","8","6","6","-","1","9","2","4",")">>
BenvenutoLine == <<" "," ","B","e","n","v","e","n","u","t","o"," "," ","B","u","s","o","n","i"," ","(","1","8","9","2","-","1","9","7","6",")"," ">>
BuelowLine == <<"H","a","n","s"," ","v","o","n"," ","B","u","l","o","w"," ","(","1","8","3","0","-","1","8","9","4",")">>
JuniorLine == <<"E","u","g","e","n"," ","D","'","A","l","b","e","r","t"," ","J","r"," ","(","1","8","6","4","-","1","9","3","2",")">>
TitleLine == <<"P","i","a","n","i","s","t","s"," ","(","1","8","6","4","-","1","9","3","2",")"," ","o","f"," ","t","h","e"," ","R","o","m","a","n","t","i","c"," ","e","r","a">>
LineSet == {EugenLine, CharlesLine, FerruccioLine, BenvenutoLine,
            BuelowLine, JuniorLine, TitleLine}
BuLine == <<"F"," ","B","u"," ","(","1","8","6","6","-","1","9","2","4",")">>
ScLine == <<"C"," ","S","c"," ","(","1","8","1","9","-","1","8","9","6",")">>
Lines == LineSet \cup {BuLine, ScLine}

\* what the loop body derives from a line is a function of the line alone
\* and is tabulated for the lines of the model
LineFacts ==
    [line \in Lines |->
        IF LineMatch(line).ok
        THEN [match |-> TRUE, short_slug |-> short_slug(line),
              display_name |-> display_name(line), marker |-> HasMarker(line)]
        ELSE [match |-> FALSE, short_slug |-> <<>>,
              display_name |-> <<>>, marker |-> FALSE]]

\* if short_slug not in pianists: pianists[short_slug] = display_name
PutShort(reg, line) ==
    IF LineFacts[line].short_slug \notin DOMAIN reg
    THEN (LineFacts[line].short_slug :> LineFacts[line].display_name) @@ reg
    ELSE reg

\* if "d'albert" in full_name.lower(): pianists["dalbert"] = display_name
PutSynonym(reg, line) ==
    IF LineFacts[line].marker
    THEN (DAlbertKey :> LineFacts[line].display_name) @@ reg
    ELSE reg

\* the body of the loop over the lines
RegisterLine(reg, line) ==
    IF LineFacts[line].match THEN PutSynonym(PutShort(reg, line), line) ELSE reg

RECURSIVE ExtractLines(_, _)
\* the loop over the lines, starting from the dict reg
ExtractLines(reg, lines) ==
    IF lines = <<>> THEN reg
    ELSE ExtractLines(RegisterLine(reg, Head(lines)), Tail(lines))

RECURSIVE Concat(_)
\* the lines of the sources, one source after the other
Concat(ss) == IF ss = <<>> THEN <<>> ELSE Head(ss) \o Concat(Tail(ss))

\* extract_pianists(input_files, output_file): the dict it builds and
\* writes, sorted by slug, to the csv file
extract_pianists(input_files) == ExtractLines(<<>>, Concat(input_files))

\* _extract_pianists_from_pdfs, for the pdfs in glob order, each with the
\* text pdftotext gave (a pdf whose conversion failed is skipped whole)
_extract_pianists_from_pdfs(contents) == ExtractLines(<<>>, Concat(contents))


----------------------------------------------------------------------------
(* WikipediaClient *)

\* the cache file: absent, holding a JSON object, or cut short by
\* open(path, 'w') before json.dump has written it (json.load then raises
\* JSONDecodeError)
AbsentFile == [state |-> "absent", dict |-> <<>>]
TruncatedFile == [state |-> "truncated", dict |-> <<>>]
JsonFile(d) == [state |-> "json", dict |-> d]

\* a cache that is never read back from its file
_load_cache_fresh(file) == <<>>

\* WikipediaClient._load_cache
_load_cache(file) == IF file.state = "json" THEN file.dict ELSE <<>>

\* cache_key = f"{entity_type}:{name}"; the two entity types hold no colon,
\* so the key determines the pair and is modelled as the pair
CacheKey(entity_type, name) == <<entity_type, name>>

\* what wikipedia.page(term, auto_suggest=False) can do
WikiAnswers == {"page", "disambiguation", "page_error", "network_error"}
\* what the pageimages query of _get_page_image can do
ImageAnswers == {"original", "no_original", "request_error"}
\* the three search terms: name, f"{name} ({entity_type})", f"{name} (musician)"
NTerms == 3

\* the texts a summary and an image_url can be: what the page says is not
\* told apart further
NoSummary == "No Wikipedia summary found"
PageSummary == "page.summary"
None == "None"
ImageUrl == "original.source"

\* the answers to the three terms: one that the loop does not get to, as it
\* stops at the first page found or exception raised, is left as "page"
AnswerCases ==
    {ans \in [1..NTerms -> WikiAnswers] :
        \A k \in 2..NTerms :
            (\E j \in 1..(k - 1) : ans[j] \in {"page", "network_error"})
                => ans[k] = "page"}

RECURSIVE Search(_, _)
\* the loop over search_terms from term k on: the term whose page was
\* found (0: none), whether an exception left the loop, and the number of
\* calls of wikipedia.page
Search(ans, k) ==
    IF k > NTerms THEN [page |-> 0, raised |-> FALSE, tried |-> NTerms]
    ELSE CASE ans[k] = "page" -> [page |-> k, raised |-> FALSE, tried |-> k]
           [] ans[k] \in {"disambiguation", "page_error"} -> Search(ans, k + 1)
           [] OTHER -> [page |-> 0, raised |-> TRUE, tried |-> k]

\* WikipediaClient._get_page_image
_get_page_image(page_title, img) == IF img = "original" THEN ImageUrl ELSE None

\* WikipediaClient.get_entity_data up to the write of the cache file: the
\* entity_data (on a hit, the cached entry), the cache, and whether the
\* call was a hit, raised, and how many external lookups it made
get_entity_data(self_cache, name, entity_type, ans, img) ==
    LET cache_key == CacheKey(entity_type, name)
        found == Search(ans, 1)
        entity_data ==
            [name |-> name,
             summary |-> IF found.page = 0 THEN NoSummary ELSE PageSummary,
             image_url |-> IF found.page = 0 THEN None
                           ELSE _get_page_image(found.page, img)]
    IN IF cache_key \in DOMAIN self_cache
       THEN [hit |-> TRUE, raised |-> FALSE, tried |-> 0, key |-> cache_key,
             data |-> self_cache[cache_key], cache |-> self_cache]
       ELSE IF found.raised
            THEN [hit |-> FALSE, raised |-> TRUE, tried |-> found.tried,
                  key |-> cache_key, data |-> entity_data,
                  cache |-> self_cache]
            ELSE [hit |-> FALSE, raised |-> FALSE, tried |-> found.tried,
                  key |-> cache_key, data |-> entity_data,
                  cache |-> (cache_key :> entity_data) @@ self_cache]

----------------------------------------------------------------------------
(* MidiLibraryGenerator *)

\* The paths a .mid file of the input directory can have, numbered in the
\* order in which sorting the paths puts them; StemOf[p] is Path.stem.
StemOf == <<<<"B","a"," ","-"," ","B","u"," ","-"," ","C","h">>,
            <<"N","o"," ","b","y"," ","C","h">>,
            <<"b","a","_","P","r">>>>
Paths == DOMAIN StemOf

\* the content of the file first seen at path p is ContentOf[p]; SizeOf is
\* its st_size: two of the files have the same size
ContentOf == <<"c1", "c2", "c3">>
SizeOf(c) == IF c = "c3" THEN 2 ELSE 1
NoFile == [content |-> "none", mtime |-> 0]

RECURSIVE SortedSeq(_)
\* the elements of a set of numbers in increasing order
SortedSeq(S) ==
    IF S = {} THEN <<>>
    ELSE LET m == CHOOSE x \in S : \A y \in S : x <= y
         IN <<m>> \o SortedSeq(S \ {m})

\* MidiLibraryGenerator._find_midi_files: rglob("*.mid"), sorted
_find_midi_files(dir) == SortedSeq({p \in DOMAIN dir : dir[p] /= NoFile})

\* MidiLibraryGenerator._load_pianist_mapping: the rows of pianists.csv
_load_pianist_mapping(csv) == csv

\* {**pdf_mapping, **csv_mapping}: the persisted registry taking precedence
MergeCsvFirst(csv_mapping, pdf_mapping) == csv_mapping @@ pdf_mapping

\* {**csv_mapping, **pdf_mapping}
MergeMappings(csv_mapping, pdf_mapping) == pdf_mapping @@ csv_mapping

\* MidiLibraryGenerator._smart_copy: whether it copies, and the destination
\* afterwards (shutil.copy2 gives the copy the source's st_mtime)
_smart_copy(src, dst) ==
    IF dst = NoFile THEN [copied |-> TRUE, dst |-> src]
    ELSE IF SizeOf(src.content) /= SizeOf(dst.content)
         THEN [copied |-> TRUE, dst |-> src]
         ELSE IF src.mtime > dst.mtime
              THEN [copied |-> TRUE, dst |-> src]
              ELSE [copied |-> FALSE, dst |-> dst]

\* the performer entity fetched under the name parsed from the filename
PerformerNameParsed(performer_name, slug, registry) == performer_name

\* the name the performer entity is fetched and stored under
PerformerName(performer_name, slug, registry) ==
    IF slug \in DOMAIN registry THEN registry[slug] ELSE performer_name

\* a new entity of model['composers'] or model['performers']: the literal's
\* "name" is overwritten by **wiki_data
NewEntity(name, slug, wiki_data) ==
    [name |-> wiki_data.name, slug |-> slug, works |-> <<>>,
     summary |-> wiki_data.summary, image_url |-> wiki_data.image_url]

\* the file id kept only in the works of the entity it creates
UpsertOnlyNew(entities, name, slug, wiki_data, file_id) ==
    IF slug \in DOMAIN entities THEN entities
    ELSE (slug :> [NewEntity(name, slug, wiki_data) EXCEPT !.works = <<file_id>>])
             @@ entities

\* model[kind][slug]['works'].append(file_id), after the entity is created
\* from wiki_data when the slug is new
Upsert(entities, name, slug, wiki_data, file_id) ==
    LET e == IF slug \in DOMAIN entities THEN entities[slug]
             ELSE NewEntity(name, slug, wiki_data)
    IN (slug :> [e EXCEPT !.works = Append(@, file_id)]) @@ entities

\* step 6: the artifacts that are not among the generated file ids are
\* unlinked
CleanupOrphans(dir, files) ==
    [a \in DOMAIN dir |-> IF a \in DOMAIN files THEN dir[a] ELSE NoFile]

\* step 7: one playlist per composer and per performer
Playlist(files, works) ==
    [j \in DOMAIN works |-> [url |-> works[j], title |-> files[works[j]].title]]
Playlists(m) ==
    [k \in ({"composer"} \X DOMAIN m.composers)
           \cup ({"performer"} \X DOMAIN m.performers) |->
        IF k[1] = "composer"
        THEN Playlist(m.files, m.composers[k[2]].works)
        ELSE Playlist(m.files, m.performers[k[2]].works)]

EmptyModel == [composers |-> <<>>, performers |-> <<>>,
               files |-> <<>>, playlists |-> <<>>]


----------------------------------------------------------------------------
(* The build: runs of regenerate_library.py over an input directory that   *)
(* changes between the runs.                                               *)

MaxEdits == 1       \* changes made to the input directory in one behaviour
\* the st_mtime values of a file put into the input directory
Mtimes == {1, 2}

\* the input directories a behaviour starts from: all three files, or the
\* first two with the second one newer
InitialDirs ==
    {[p \in Paths |-> [content |-> ContentOf[p], mtime |-> IF p = 3 THEN 2 ELSE 1]],
     [p \in Paths |-> IF p = 3 THEN NoFile
                      ELSE [content |-> ContentOf[p], mtime |-> p]]}

\* the registry sources of the input directory: pianists.csv and one pdf.
\* The slug "bu" is in both, "li" in the csv only, "sc" in the pdf only.
BuSlug == <<"b", "u">>
LiSlug == <<"l", "i">>
ScSlug == <<"s", "c">>
OldBu == <<"O","l","d"," ","B","u"," ","(","1","8","6","6","-","1","9","2","4",")">>
FLi == <<"F"," ","L","i"," ","(","1","8","1","1","-","1","8","8","6",")">>
InitialCsv == (BuSlug :> OldBu) @@ (LiSlug :> FLi)
InitialPdfs == <<<<BuLine, ScLine>>>>
\* _extract_pianists_from_pdfs is a function of the pdfs' text and is
\* tabulated for the texts of the model
PdfMappingOf == [text \in {InitialPdfs} |-> _extract_pianists_from_pdfs(text)]

Stopped == {"idle", "done", "failed", "crashed"}
NoCall == [type |-> "none"]
Artifacts == 0..(Len(StemOf) - 1)

NoChange == [removed |-> {}, other |-> FALSE]
NoBasis == [clean |-> FALSE, removed |-> {}, other |-> FALSE,
            midiDir |-> [a \in Artifacts |-> NoFile],
            midi_files |-> <<>>, model |-> EmptyModel]

BuildInit ==
    /\ inputDir \in InitialDirs
    /\ csvFile = InitialCsv /\ pdfText = InitialPdfs
    /\ cacheFile = AbsentFile
    /\ midiDir = [a \in Artifacts |-> NoFile]
    /\ pc = "idle" /\ phase = "composer" /\ file_index = 0 /\ midi_files = <<>>
    /\ pianist_mapping = <<>> /\ cache = <<>> /\ model = EmptyModel
    /\ call = NoCall /\ fetches = 0 /\ copied = {}
    /\ since = NoChange
    /\ basis = NoBasis
    /\ edits = 0

\* main(): MidiLibraryGenerator.__init__ loads the cache; build_data_model
\* runs up to its loop over the files
StartRun ==
    /\ pc \in Stopped
    /\ cache' = _load_cache(cacheFile)
    /\ midi_files' = _find_midi_files(inputDir)
    /\ pianist_mapping' = MergeMappings(_load_pianist_mapping(csvFile),
                                        PdfMappingOf[pdfText])
    /\ model' = EmptyModel
    /\ file_index' = 0 /\ phase' = "composer"
    /\ pc' = IF midi_files' = <<>> THEN "finish" ELSE "loop"
    /\ call' = NoCall /\ fetches' = 0 /\ copied' = {}
    /\ basis' = [clean |-> pc = "done", removed |-> since.removed,
                 other |-> since.other, midiDir |-> midiDir,
                 midi_files |-> midi_files, model |-> model]
    /\ since' = NoChange
    /\ UNCHANGED <<fsVars, edits>>

\* the file of this iteration and what steps 1 to 3 derive from its name
file_path == midi_files[file_index + 1]
file_id == file_index
\* (the three are functions of the path alone and are tabulated per path)
MetadataOf == [p \in Paths |-> _parse_metadata(StemOf[p])]
ComposerSlugOf == [p \in Paths |-> slugify(MetadataOf[p]["composer"])]
PerformerSlugOf == [p \in Paths |-> slugify(MetadataOf[p]["performer"])]
parsed == MetadataOf[file_path]
composer_slug == ComposerSlugOf[file_path]
performer_slug == PerformerSlugOf[file_path]
NameOf(kind) ==
    IF kind = "composer" THEN parsed["composer"]
    ELSE PerformerName(parsed["performer"], performer_slug, pianist_mapping)
SlugOf(kind) == IF kind = "composer" THEN composer_slug ELSE performer_slug
Entities(kind) == IF kind = "composer" THEN model.composers ELSE model.performers
WithEntities(kind, es) ==
    IF kind = "composer" THEN [model EXCEPT !.composers = es]
    ELSE [model EXCEPT !.performers = es]
NextPhase(kind) == IF kind = "composer" THEN "performer" ELSE "copy"

CallRecord(kind, r) ==
    [type |-> kind, name |-> NameOf(kind), slug |-> SlugOf(kind),
     file |-> file_id,
     parsed |-> parsed[kind], key |-> r.key,
     substituted |-> kind = "performer" /\ performer_slug \in DOMAIN pianist_mapping,
     hit |-> r.hit, raised |-> r.raised, resolved |-> r.data.summary /= NoSummary,
     returned |-> r.hit, data |-> r.data]

\* the memory of a process that has ended without a result
ProcessGone ==
    /\ phase' = "composer" /\ file_index' = 0 /\ midi_files' = <<>>
    /\ pianist_mapping' = <<>> /\ cache' = <<>> /\ model' = EmptyModel
    /\ fetches' = 0 /\ copied' = {} /\ basis' = NoBasis

\* steps 2 and 3, the slug already in the model: only the append
EntitySeen(kind) ==
    /\ pc = "loop" /\ phase = kind
    /\ SlugOf(kind) \in DOMAIN Entities(kind)
    /\ model' = WithEntities(kind, Upsert(Entities(kind), NameOf(kind),
                                          SlugOf(kind), NoCall, file_id))
    /\ phase' = NextPhase(kind)
    /\ UNCHANGED <<fsVars, pc, file_index, midi_files, pianist_mapping, cache, bookVars>>

\* steps 2 and 3, a new slug whose cache key is in the cache
EntityHit(kind) ==
    /\ pc = "loop" /\ phase = kind
    /\ SlugOf(kind) \notin DOMAIN Entities(kind)
    /\ CacheKey(kind, NameOf(kind)) \in DOMAIN cache
    /\ LET r == get_entity_data(cache, NameOf(kind), kind,
                                [k \in 1..NTerms |-> "page"], "original")
       IN /\ model' = WithEntities(kind, Upsert(Entities(kind), NameOf(kind),
                                                SlugOf(kind), r.data, file_id))
          /\ call' = CallRecord(kind, r)
    /\ phase' = NextPhase(kind)
    /\ UNCHANGED <<fsVars, pc, file_index, midi_files, pianist_mapping, cache,
                   fetches, copied, since, basis, edits>>

\* steps 2 and 3, a new slug whose cache key is not in the cache: the
\* lookups, and _save_cache as far as open(self.cache_path, 'w'); an
\* exception of wikipedia.page that get_entity_data does not catch leaves
\* build_data_model, and main() exits with status 1
EntityMiss(kind) ==
    /\ pc = "loop" /\ phase = kind
    /\ SlugOf(kind) \notin DOMAIN Entities(kind)
    /\ CacheKey(kind, NameOf(kind)) \notin DOMAIN cache
    /\ \E ans \in AnswerCases, img \in ImageAnswers :
         LET r == get_entity_data(cache, NameOf(kind), kind, ans, img)
         IN /\ call' = CallRecord(kind, r)
            /\ IF r.raised
               THEN /\ pc' = "failed" /\ cacheFile' = cacheFile
                    /\ ProcessGone
               ELSE /\ pc' = "saving" /\ cacheFile' = TruncatedFile
                    /\ cache' = r.cache
                    /\ fetches' = fetches + 1
                    /\ UNCHANGED <<phase, file_index, midi_files,
                                   pianist_mapping, model, copied, basis>>
    /\ UNCHANGED <<inputDir, csvFile, pdfText, midiDir, since, edits>>

\* json.dump(self.cache, f) and the return of get_entity_data to the loop
\* body, which creates the entity and appends the file id
SaveDump ==
    /\ pc = "saving"
    /\ cacheFile' = JsonFile(cache)
    /\ model' = WithEntities(phase, Upsert(Entities(phase), NameOf(phase),
                                           SlugOf(phase), call.data, file_id))
    /\ call' = [call EXCEPT !.returned = TRUE]
    /\ phase' = NextPhase(phase)
    /\ pc' = "loop"
    /\ UNCHANGED <<inputDir, csvFile, pdfText, midiDir, file_index, midi_files,
                   pianist_mapping, cache, fetches, copied, since, basis, edits>>

\* steps 4 and 5: the smart copy and the file entry
CopyStep ==
    /\ pc = "loop" /\ phase = "copy"
    /\ LET r == _smart_copy(inputDir[file_path], midiDir[file_id])
       IN /\ midiDir' = [midiDir EXCEPT ![file_id] = r.dst]
          /\ copied' = IF r.copied THEN copied \cup {file_id} ELSE copied
    /\ model' = [model EXCEPT !.files =
                    (file_id :> [id |-> file_id, title |-> parsed["work"],
                                 composer_slug |-> composer_slug,
                                 performer_slug |-> performer_slug]) @@ @]
    /\ file_index' = file_index + 1
    /\ phase' = "composer"
    /\ pc' = IF file_index + 1 = Len(midi_files) THEN "finish" ELSE "loop"
    /\ UNCHANGED <<inputDir, csvFile, pdfText, cacheFile, midi_files,
                   pianist_mapping, cache, call, fetches, since, basis, edits>>

\* steps 6 and 7: the orphans are removed and the playlists built
Finish ==
    /\ pc = "finish"
    /\ midiDir' = CleanupOrphans(midiDir, model.files)
    /\ model' = [model EXCEPT !.playlists = Playlists(model)]
    /\ pc' = "done"
    /\ UNCHANGED <<inputDir, csvFile, pdfText, cacheFile, phase, file_index,
                   midi_files, pianist_mapping, cache, bookVars>>

\* the process is killed
Crash ==
    /\ pc \in {"loop", "saving", "finish"}
    /\ pc' = "crashed"
    /\ ProcessGone
    /\ call' = NoCall
    /\ UNCHANGED <<fsVars, since, edits>>

\* between runs: a file is put into the input directory
AddFile(p, m) ==
    /\ pc \in Stopped /\ edits < MaxEdits
    /\ inputDir[p] = NoFile
    /\ inputDir' = [inputDir EXCEPT ![p] = [content |-> ContentOf[p], mtime |-> m]]
    /\ since' = [since EXCEPT !.other = TRUE]
    /\ edits' = edits + 1
    /\ UNCHANGED <<csvFile, pdfText, cacheFile, midiDir, procVars,
                   call, fetches, copied, basis>>

\* between runs: a file of the input directory is removed
RemoveFile(p) ==
    /\ pc \in Stopped /\ edits < MaxEdits
    /\ inputDir[p] /= NoFile
    /\ inputDir' = [inputDir EXCEPT ![p] = NoFile]
    /\ since' = [since EXCEPT !.removed = @ \cup {[path |-> p, file |-> inputDir[p]]}]
    /\ edits' = edits + 1
    /\ UNCHANGED <<csvFile, pdfText, cacheFile, midiDir, procVars,
                   call, fetches, copied, basis>>

\* between runs: a file of the input directory is renamed
RenameFile(p, q) ==
    /\ pc \in Stopped /\ edits < MaxEdits
    /\ inputDir[p] /= NoFile /\ inputDir[q] = NoFile
    /\ inputDir' = [inputDir EXCEPT ![p] = NoFile, ![q] = inputDir[p]]
    /\ since' = [since EXCEPT !.other = TRUE]
    /\ edits' = edits + 1
    /\ UNCHANGED <<csvFile, pdfText, cacheFile, midiDir, procVars,
                   call, fetches, copied, basis>>

\* the variables of the parts that a specification leaves alone
SlugOff == slugArg = <<>> /\ slugOut = <<>>
ParseOff == stem = <<>> /\ metadata = NoResult
RegOff ==
    /\ sources = <<>> /\ pianists = NoResult /\ scanned = <<>>
    /\ mapping = NoResult /\ converted = <<>>
BuildOff ==
    /\ inputDir = [p \in Paths |-> NoFile]
    /\ csvFile = <<>> /\ pdfText = <<>>
    /\ cacheFile = AbsentFile
    /\ midiDir = [a \in Artifacts |-> NoFile]
    /\ pc = "off" /\ phase = "composer" /\ file_index = 0 /\ midi_files = <<>>
    /\ pianist_mapping = <<>> /\ cache = <<>> /\ model = EmptyModel
    /\ call = NoCall /\ fetches = 0 /\ copied = {}
    /\ since = NoChange /\ basis = NoBasis /\ edits = 0

Init == SlugOff /\ ParseOff /\ RegOff /\ BuildInit

Idle == UNCHANGED <<slugVars, parseVars, regVars>>

Next ==
    \/ StartRun /\ Idle
    \/ \E kind \in {"composer", "performer"} : EntitySeen(kind) /\ Idle
    \/ \E kind \in {"composer", "performer"} : EntityHit(kind) /\ Idle
    \/ \E kind \in {"composer", "performer"} : EntityMiss(kind) /\ Idle
    \/ SaveDump /\ Idle
    \/ CopyStep /\ Idle
    \/ Finish /\ Idle
    \/ \E p \in Paths, m \in Mtimes : AddFile(p, m) /\ Idle
    \/ \E p \in Paths : RemoveFile(p) /\ Idle
    \/ \E p, q \in Paths : RenameFile(p, q) /\ Idle

Spec == Init /\ [][Next]_vars

\* the runs over an input directory that does not change, where the process
\* can be killed at any point
NextCrash ==
    \/ StartRun /\ Idle
    \/ \E kind \in {"composer", "performer"} : EntitySeen(kind) /\ Idle
    \/ \E kind \in {"composer", "performer"} : EntityHit(kind) /\ Idle
    \/ \E kind \in {"composer", "performer"} : EntityMiss(kind) /\ Idle
    \/ SaveDump /\ Idle
    \/ CopyStep /\ Idle
    \/ Finish /\ Idle
    \/ Crash /\ Idle

SpecCrash == Init /\ [][NextCrash]_vars

----------------------------------------------------------------------------
(* slugify applied to a text and then to its own results *)

MaxSlugLen == 4     \* the length of the text handed to slugify
MaxCalls == 2       \* the successive applications of slugify

SlugAlphabet == {"a", "A", "-", "_", " ", "'", "U+00E9", "U+00DF", "U+00A0"}
Texts(alphabet, n) == UNION {[1..k -> alphabet] : k \in 0..n}

SlugInit ==
    /\ slugArg \in Texts(SlugAlphabet, MaxSlugLen) /\ slugOut = <<>>
    /\ ParseOff /\ RegOff /\ BuildOff

SlugifyCall ==
    /\ Len(slugOut) < MaxCalls
    /\ slugOut' = Append(slugOut, slugify(IF slugOut = <<>> THEN slugArg
                                          ELSE slugOut[Len(slugOut)]))
    /\ UNCHANGED <<slugArg, parseVars, regVars, buildVars>>

SlugSpec == SlugInit /\ [][SlugifyCall]_vars

----------------------------------------------------------------------------
(* _parse_metadata applied to a stem *)

MaxStemLen == 5     \* the length of a stem made of single characters
MaxTokens == 5      \* the length of a stem made of tokens

StemAlphabet == {"a", " ", "-", "_", "(", ")"}
StemTokens == {<<"a">>, <<" ", "-", " ">>, <<" ", "b", "y", " ">>,
               <<" ", "(", "a", ")", " ">>, <<" ">>}
BachStem == <<"B","a","c","h"," ","-"," ","B","u","s","o","n","i"," ","-"," ","C","h","a","c","o","n","n","e">>
NocturneStem == <<"N","o","c","t","u","r","n","e"," ","b","y"," ","C","h","o","p","i","n">>
Stems ==
    Texts(StemAlphabet, MaxStemLen)
    \cup {Concat(ts) : ts \in Texts(StemTokens, MaxTokens)}
    \cup {BachStem, NocturneStem}

ParseInit ==
    /\ stem \in Stems /\ metadata = NoResult
    /\ SlugOff /\ RegOff /\ BuildOff

ParseMetadata ==
    /\ metadata = NoResult
    /\ metadata' = Result(_parse_metadata(stem))
    /\ UNCHANGED <<stem, slugVars, regVars, buildVars>>

ParseSpec == ParseInit /\ [][ParseMetadata]_vars

----------------------------------------------------------------------------
(* Registry extraction over two text sources: one pass of                  *)
(* extract_pianists over them as text files, and one pass of               *)
(* _extract_pianists_from_pdfs over them as the text of two pdfs.          *)

MaxLines == 3       \* the lines of the two sources together

RegInit ==
    /\ \E ls \in Texts(LineSet, MaxLines) : \E k \in 0..Len(ls) :
         sources = <<SubSeq(ls, 1, k), SubSeq(ls, k + 1, Len(ls))>>
    /\ pianists = NoResult /\ scanned = <<>>
    /\ mapping = NoResult /\ converted = <<>>
    /\ SlugOff /\ ParseOff /\ BuildOff

\* extract_pianists(input_files, output_file)
ExtractPianists ==
    /\ pianists = NoResult
    /\ scanned' = Concat(sources)
    /\ pianists' = Result(extract_pianists(sources))
    /\ UNCHANGED <<sources, mapping, converted, slugVars, parseVars, buildVars>>

\* _extract_pianists_from_pdfs(): the glob gives the pdfs in some order,
\* and pdftotext may fail on some of them
ExtractFromPdfs ==
    /\ mapping = NoResult
    /\ \E order \in {<<1, 2>>, <<2, 1>>}, failed \in SUBSET {1, 2} :
         LET texts == [n \in 1..2 |-> IF order[n] \in failed THEN <<>>
                                      ELSE sources[order[n]]]
         IN /\ converted' = Concat(texts)
            /\ mapping' = Result(_extract_pianists_from_pdfs(texts))
    /\ UNCHANGED <<sources, pianists, scanned, slugVars, parseVars, buildVars>>

RegNext == ExtractPianists \/ ExtractFromPdfs

RegSpec == RegInit /\ [][RegNext]_vars

----------------------------------------------------------------------------
(* Properties of registry extraction (RegSpec) *)

\* C1, as the specification states it: extraction of the single line
\* "Eugen d'Albert (1864-1932)" gives a registry with at least two distinct
\* keys that both map to that display name.
C1_TwoKeysForDAlbert ==
    /\ (pianists.done /\ scanned = <<EugenLine>>) =>
          \E k1, k2 \in DOMAIN pianists.value :
              /\ k1 /= k2
              /\ pianists.value[k1] = EugenLine /\ pianists.value[k2] = EugenLine
    /\ (mapping.done /\ converted = <<EugenLine>>) =>
          \E k1, k2 \in DOMAIN mapping.value :
              /\ k1 /= k2
              /\ mapping.value[k1] = EugenLine /\ mapping.value[k2] = EugenLine

\* C1, as the code has it: extraction of the single line
\* "Eugen d'Albert (1864-1932)", by extract_pianists and by
\* _extract_pianists_from_pdfs, gives a registry with exactly one key,
\* "dalbert", mapped to that display name: the slug of the surname and the
\* synonym key are the same key.
C1_OneKeyForDAlbert ==
    /\ (pianists.done /\ scanned = <<EugenLine>>) =>
          pianists.value = (DAlbertKey :> EugenLine)
    /\ (mapping.done /\ converted = <<EugenLine>>) =>
          mapping.value = (DAlbertKey :> EugenLine)

\* both extractions have read the single line "Eugen d'Albert (1864-1932)"
C1_Witness ==
    /\ pianists.done /\ scanned = <<EugenLine>>
    /\ mapping.done /\ converted = <<EugenLine>>

\* the line registers the key k: by its short slug, or by the synonym
Registers(line, k) ==
    /\ LineFacts[line].match
    /\ \/ LineFacts[line].short_slug = k
       \/ LineFacts[line].marker /\ k = DAlbertKey

\* the display name of the first of the lines that registers the key k
FirstDisplay(lines, k) ==
    LET first == CHOOSE i \in DOMAIN lines :
                     /\ Registers(lines[i], k)
                     /\ \A j \in 1..(i - 1) : ~Registers(lines[j], k)
    IN LineFacts[lines[first]].display_name

\* C7: within one extraction pass, every key of the resulting registry holds
\* the display name of the first line, in scan order across the sources,
\* that registered the key; no later line overwrites it.
C7_FirstLineWins ==
    /\ pianists.done =>
          \A k \in DOMAIN pianists.value :
              pianists.value[k] = FirstDisplay(scanned, k)
    /\ mapping.done =>
          \A k \in DOMAIN mapping.value :
              mapping.value[k] = FirstDisplay(converted, k)

----------------------------------------------------------------------------
(* Properties of _parse_metadata (ParseSpec) *)

\* C3: for every stem, _parse_metadata returns a result in which work,
\* composer and performer are all present and all non-empty.
C3_AllFieldsNonEmpty ==
    metadata.done =>
        \A f \in {"work", "composer", "performer"} :
            f \in DOMAIN metadata.value /\ metadata.value[f] /= <<>>

\* C9: the patterns are applied in list order and the fields come from the
\* first pattern that matches; a stem that matches the three-part pattern
\* takes all three fields from it; "Bach - Busoni - Chaconne" gives
\* composer "Bach", performer "Busoni", work "Chaconne", and
\* "Nocturne by Chopin" gives work "Nocturne", composer "Chopin".
C9_FirstPatternWins ==
    metadata.done =>
        LET ms == [i \in DOMAIN FILENAME_REGEX_PATTERNS |->
                      ReMatch(FILENAME_REGEX_PATTERNS[i], stem)]
            three == ReMatch(ComposerPerformerWork, stem)
        IN /\ \A i \in DOMAIN FILENAME_REGEX_PATTERNS :
                (ms[i].ok /\ \A j \in 1..(i - 1) : ~ms[j].ok)
                => \A f \in GroupNames(FILENAME_REGEX_PATTERNS[i]) :
                       metadata.value[f] = Strip(Group(ms[i], stem, f))
           /\ three.ok =>
                \A f \in {"composer", "performer", "work"} :
                    metadata.value[f] = Strip(Group(three, stem, f))
           /\ stem = BachStem =>
                /\ metadata.value["composer"] = <<"B","a","c","h">>
                /\ metadata.value["performer"] = <<"B","u","s","o","n","i">>
                /\ metadata.value["work"] = <<"C","h","a","c","o","n","n","e">>
           /\ stem = NocturneStem =>
                /\ metadata.value["work"] = <<"N","o","c","t","u","r","n","e">>
                /\ metadata.value["composer"] = <<"C","h","o","p","i","n">>

\* "Bach - Busoni - Chaconne" has been parsed
C9_Witness == metadata.done /\ stem = BachStem

----------------------------------------------------------------------------
(* Properties of slugify (SlugSpec) *)

\* C10: slugify is idempotent: every further application of slugify to its
\* own result gives that result again.
C10_Idempotent ==
    \A n \in 2..Len(slugOut) : slugOut[n] = slugOut[n - 1]

\* slugify has been applied twice to a text that it changes, and whose slug
\* starts with a hyphen
C10_Witness ==
    /\ Len(slugOut) >= 2
    /\ slugOut[1] /= slugArg
    /\ slugOut[1] /= <<>> /\ Head(slugOut[1]) = "-"

----------------------------------------------------------------------------
(* Properties of the build (Spec, SpecCrash) *)

\* the values of pc at which the process holds the state of a run
Running == {"loop", "saving", "finish", "done"}

\* C2, as the specification states it: for a performer whose slug is in
\* the merged registry, the cache key is made of the name parsed from the
\* filename, before the registry substitution.
C2_KeyIsParsedName ==
    (call.type = "performer" /\ call.substituted) =>
        call.key = CacheKey("performer", call.parsed)

\* C2, as the code has it: for a performer whose slug is in the merged
\* registry, the cache is looked up and written under the key made of the
\* registry's display name, which is also the name stored on the entity;
\* no entry is made under the name parsed from the filename.
C2_KeyIsRegistryName ==
    pc \in Running =>
        /\ (call.type = "performer" /\ call.substituted) =>
              /\ call.name = pianist_mapping[call.slug]
              /\ call.key = CacheKey("performer", pianist_mapping[call.slug])
              /\ call.returned =>
                    /\ call.key \in DOMAIN cache
                    /\ model.performers[call.slug].name
                           = pianist_mapping[call.slug]
        /\ \A p \in Paths :
              (/\ PerformerSlugOf[p] \in DOMAIN pianist_mapping
               /\ pianist_mapping[PerformerSlugOf[p]] /= MetadataOf[p]["performer"])
              => CacheKey("performer", MetadataOf[p]["performer"])
                     \notin DOMAIN cache

\* a run has ended in which a performer of the registry was fetched
C2_Witness ==
    /\ pc = "done"
    /\ call.type = "performer" /\ call.substituted
    /\ ~call.hit /\ call.returned
    /\ call.parsed /= call.name

\* C4: on a cache miss, every failure of an external lookup is caught inside
\* get_entity_data: the call does not raise and the run is not aborted, and
\* when no query resolves, the placeholder with a null image is what the
\* cache holds for the key.
C4_LookupFailuresCaught ==
    (call.type /= "none" /\ ~call.hit) =>
        /\ ~call.raised
        /\ pc /= "failed"
        /\ call.key \in DOMAIN cache
        /\ ~call.resolved =>
              /\ cache[call.key].summary = NoSummary
              /\ cache[call.key].image_url = None

\* C5: a run that follows a finished run, with the input directory left as
\* it was, gives every input file the FileID it had, makes no external
\* lookup (every get_entity_data call is a cache hit, and no miss is ahead),
\* and ends with the same composer and performer slugs.
C5_RerunAllHits ==
    (pc \in Running /\ basis.clean /\ ~basis.other /\ basis.removed = {}) =>
        /\ midi_files = basis.midi_files
        /\ fetches = 0 /\ pc /= "saving"
        /\ call.type /= "none" => call.hit
        /\ (/\ pc = "loop" /\ phase \in {"composer", "performer"}
            /\ SlugOf(phase) \notin DOMAIN Entities(phase))
           => CacheKey(phase, NameOf(phase)) \in DOMAIN cache
        /\ pc = "done" =>
              /\ DOMAIN model.files = DOMAIN basis.model.files
              /\ DOMAIN model.composers = DOMAIN basis.model.composers
              /\ DOMAIN model.performers = DOMAIN basis.model.performers

\* a second run over the unchanged directory of three files has ended, its
\* last get_entity_data call a hit
C5_Witness ==
    /\ pc = "done"
    /\ basis.clean /\ ~basis.other /\ basis.removed = {}
    /\ Len(midi_files) = 3
    /\ call.type /= "none" /\ call.hit

\* C6: after one processed input file is removed and the build is run
\* again, the midi-files directory holds no artifact of the removed input,
\* and no artifact of the other inputs was rewritten: the artifact files
\* that remain are as they were before the rerun.
C6_RemovedInputLeavesNoArtifact ==
    (/\ pc = "done"
     /\ basis.clean /\ ~basis.other /\ Cardinality(basis.removed) = 1)
    => /\ \A r \in basis.removed : \A a \in Artifacts :
              midiDir[a] = NoFile \/ midiDir[a].content /= r.file.content
       /\ \A a \in Artifacts :
              midiDir[a] /= NoFile => midiDir[a] = basis.midiDir[a]
       /\ copied = {}

\* C8: if the process crashes at any point of a run, the cache file still
\* holds every entry of the in-memory cache except at most the one being
\* fetched at that moment.
C8_CrashLosesAtMostOneEntry ==
    [][pc' = "crashed" =>
          LET inflight == IF pc = "saving" THEN {call.key} ELSE {}
          IN \A k \in DOMAIN cache \ inflight :
                 /\ k \in DOMAIN _load_cache(cacheFile')
                 /\ _load_cache(cacheFile')[k] = cache[k]]_vars

\* C11: the merged registry of a run maps a slug that pianists.csv and the
\* freshly extracted registry both hold, with different display names, to
\* the freshly extracted display name; a slug that only one of the two
\* holds keeps its single value, and the merged registry has no other slug.
C11_ExtractedNameWins ==
    pc \in Running =>
        LET csv_mapping == _load_pianist_mapping(csvFile)
            pdf_mapping == PdfMappingOf[pdfText]
        IN /\ DOMAIN pianist_mapping = DOMAIN csv_mapping \cup DOMAIN pdf_mapping
           /\ \A slug \in DOMAIN pdf_mapping :
                  pianist_mapping[slug] = pdf_mapping[slug]
           /\ \A slug \in DOMAIN csv_mapping \ DOMAIN pdf_mapping :
                  pianist_mapping[slug] = csv_mapping[slug]

\* a run holds the merged registry of a csv file and a pdf that give the
\* slug "bu" different display names, with "li" in the csv file only and
\* "sc" in the pdf only
C11_Witness ==
    /\ pc = "loop"
    /\ csvFile[BuSlug] = OldBu /\ PdfMappingOf[pdfText][BuSlug] = BuLine
    /\ OldBu /= BuLine
    /\ pianist_mapping[BuSlug] = BuLine
    /\ pianist_mapping[LiSlug] = FLi /\ pianist_mapping[ScSlug] = ScLine

\* C12: when a run has finished, whatever runs and changes of the input
\* directory came before it, the artifact files are exactly those of the
\* FileIDs the run generated, and every artifact file-id-N.mid has the
\* content of the input file the run gave FileID N.
C12_ArtifactsMatchInputs ==
    (pc = "done" /\ since = NoChange) =>
        \A a \in Artifacts :
            /\ midiDir[a] /= NoFile <=> a \in DOMAIN model.files
            /\ a \in DOMAIN model.files =>
                  midiDir[a].content = inputDir[midi_files[a + 1]].content

\* the entities of one type in a model, and the slug and the name that the
\* file with FileID n has for the type in the run at hand
EntitiesIn(m, kind) == IF kind = "composer" THEN m.composers ELSE m.performers
SlugAt(kind, n) ==
    IF kind = "composer" THEN ComposerSlugOf[midi_files[n + 1]]
    ELSE PerformerSlugOf[midi_files[n + 1]]
NameAt(kind, n) ==
    IF kind = "composer" THEN MetadataOf[midi_files[n + 1]]["composer"]
    ELSE IF SlugAt(kind, n) \in DOMAIN pianist_mapping
         THEN pianist_mapping[SlugAt(kind, n)]
         ELSE MetadataOf[midi_files[n + 1]]["performer"]

\* what holds of the entities at every point of a run: the works of an
\* entity are the FileIDs seen so far with its slug, in ascending order from
\* the first file with the slug on, and its name and enrichment are those
\* that get_entity_data gave for the first file; a call of get_entity_data
\* is made at the first file with the slug
EntitiesFromFirstSight ==
    pc \in Running =>
        /\ \A kind \in {"composer", "performer"} :
             \A slug \in DOMAIN EntitiesIn(model, kind) :
               LET e == EntitiesIn(model, kind)[slug]
                   key == CacheKey(kind, e.name)
               IN /\ e.slug = slug /\ e.works /= <<>>
                  /\ \A j \in DOMAIN e.works : SlugAt(kind, e.works[j]) = slug
                  /\ \A j, k \in DOMAIN e.works :
                         j < k => e.works[j] < e.works[k]
                  /\ \A n \in 0..(e.works[Len(e.works)]) :
                         SlugAt(kind, n) = slug
                             <=> \E j \in DOMAIN e.works : e.works[j] = n
                  /\ e.name = NameAt(kind, e.works[1])
                  /\ key \in DOMAIN cache
                  /\ e.summary = cache[key].summary
                  /\ e.image_url = cache[key].image_url
        /\ call.type /= "none" =>
             /\ SlugAt(call.type, call.file) = call.slug
             /\ \A n \in 0..(call.file - 1) :
                    SlugAt(call.type, n) /= call.slug

\* what holds of every step of a run: an entity enters the model by a
\* call of get_entity_data for its slug, with the FileID of the file at hand
\* as its only work; get_entity_data is called only for a slug that is not
\* in the model; an entity in the model keeps its name and enrichment, and
\* its works change only by the FileID at hand being appended
EntityStep ==
    (pc \in {"loop", "saving"} /\ pc' \in Running) =>
        \A kind \in {"composer", "performer"} :
            LET old == EntitiesIn(model, kind)
                new == EntitiesIn(model', kind)
            IN /\ DOMAIN old \subseteq DOMAIN new
               /\ \A slug \in DOMAIN new \ DOMAIN old :
                      /\ call'.type = kind /\ call'.slug = slug
                      /\ call'.returned /\ call'.file = file_id
                      /\ new[slug].works = <<file_id>>
                      /\ new[slug].name = call'.data.name
                      /\ new[slug].summary = call'.data.summary
                      /\ new[slug].image_url = call'.data.image_url
               /\ (/\ call'.type = kind
                   /\ (call.type = "none"
                       \/ <<call'.type, call'.slug, call'.file>>
                              /= <<call.type, call.slug, call.file>>))
                  => call'.slug \notin DOMAIN old
               /\ \A slug \in DOMAIN old :
                      /\ new[slug].name = old[slug].name
                      /\ new[slug].summary = old[slug].summary
                      /\ new[slug].image_url = old[slug].image_url
                      /\ \/ new[slug].works = old[slug].works
                         \/ new[slug].works = Append(old[slug].works, file_id)

\* what holds at the end of a run: every FileID is exactly once in the
\* works of exactly one composer and of exactly one performer, and each
\* playlist lists the works of its entity in the same order, each item
\* with the file's url and title
WorksAndPlaylists ==
    pc = "done" =>
        /\ \A kind \in {"composer", "performer"} :
             \A n \in DOMAIN model.files :
                 Cardinality({sj \in UNION {{s} \X DOMAIN EntitiesIn(model, kind)[s].works :
                                               s \in DOMAIN EntitiesIn(model, kind)} :
                                 EntitiesIn(model, kind)[sj[1]].works[sj[2]] = n}) = 1
        /\ DOMAIN model.playlists =
               ({"composer"} \X DOMAIN model.composers)
                   \cup ({"performer"} \X DOMAIN model.performers)
        /\ \A key \in DOMAIN model.playlists :
             LET works == EntitiesIn(model, key[1])[key[2]].works
                 list == model.playlists[key]
             IN /\ Len(list) = Len(works)
                /\ \A j \in DOMAIN works :
                       /\ list[j].url = works[j]
                       /\ list[j].title = model.files[works[j]].title

\* C13: in one run, for each entity type, get_entity_data is called once
\* per distinct slug, at the first file that has the slug; every later file
\* with the slug leaves the entity's name and enrichment as they are and
\* only appends its FileID to works; at the end every FileID is exactly
\* once in the works of exactly one composer and one performer, in
\* ascending order, and each playlist lists those works in the same order.
C13_OneCallPerSlug ==
    /\ [](EntitiesFromFirstSight /\ WorksAndPlaylists)
    /\ [][EntityStep]_vars

\* a run of three files has ended in which the third file has the slug of
\* the first file's composer and the slug of the second file's performer
C13_Witness ==
    /\ pc = "done" /\ Len(midi_files) = 3
    /\ SlugAt("composer", 2) = SlugAt("composer", 0)
    /\ NameAt("composer", 2) /= NameAt("composer", 0)
    /\ SlugAt("performer", 2) = SlugAt("performer", 1)
    /\ model.composers[SlugAt("composer", 0)].works = <<0, 2>>
    /\ model.performers[SlugAt("performer", 1)].works = <<1, 2>>

====
